---- MODULE Spec2Model ----
(***************************************************************************)
(* Model of app.py, the Ramadan 2024 TPS / pod dashboard.  The script is   *)
(* executed top to bottom on every interaction: it loads the hourly CSV,   *)
(* reads the sidebar widgets, filters by date range and service, buckets   *)
(* by Hour / Day / Week, aggregates with max / mean / min, and derives the *)
(* statistics table and the TPS-vs-pods correlation from the aggregate.    *)
(*                                                                         *)
(* Time is counted in seconds from midnight of the first calendar day of   *)
(* the data set.  Fractional values (means) are exact rationals <<n, d>>   *)
(* in lowest terms; the rounding of binary floating point is not modelled. *)
(***************************************************************************)
EXTENDS Integers, Sequences, FiniteSets, TLC

VARIABLES df, date_range, time_window, agg_method, show_metrics,
          selected_services, pc, raised, df_agg, fig, stats, correlation, displayed

vars == <<df, date_range, time_window, agg_method, show_metrics,
          selected_services, pc, raised, df_agg, fig, stats, correlation, displayed>>

-----------------------------------------------------------------------------
(* Bounds of the model *)

\* Largest number of rows of ramadan_hourly.csv.
MaxRows == 3

-----------------------------------------------------------------------------
(* Units of time *)

SecondsPerHour == 3600

SecondsPerDay == 86400

\* Hours (counted from the first midnight) at which the data set may hold a
\* sample: first and last hour of the first day, first hour of the second.
SampleHours == {0, 23, 24}

\* The service names of the data set, in sorted order.
Services == <<"auth", "checkout">>

\* The (tps, pods) readings a sample may hold.
Samples == {<<1, 2>>, <<2, 1>>}

Rank(s) == CHOOSE i \in 1..Len(Services) : Services[i] = s

Range(q) == {q[i] : i \in 1..Len(q)}

Min(S) == CHOOSE x \in S : \A y \in S : x <= y

Max(S) == CHOOSE x \in S : \A y \in S : x >= y

-----------------------------------------------------------------------------
(* Exact fractions <<numerator, denominator>>, denominator > 0 *)

RECURSIVE Gcd(_, _)
Gcd(a, b) == IF b = 0 THEN a ELSE Gcd(b, a % b)

Rat(n, d) == LET g == Gcd(n, d) IN IF n = 0 THEN <<0, 1>> ELSE <<n \div g, d \div g>>

RAdd(a, b) == Rat(a[1] * b[2] + b[1] * a[2], a[2] * b[2])

RSub(a, b) == Rat(a[1] * b[2] - b[1] * a[2], a[2] * b[2])

RMul(a, b) == Rat(a[1] * b[1], a[2] * b[2])

RLeq(a, b) == a[1] * b[2] <= b[1] * a[2]

\* Sum of the fractions q[i], i in I.
RECURSIVE RSum(_, _)
RSum(q, I) ==
    IF I = {} THEN <<0, 1>>
    ELSE LET i == CHOOSE j \in I : TRUE IN RAdd(q[i], RSum(q, I \ {i}))

-----------------------------------------------------------------------------
(* The data set: df = pd.read_csv('ramadan_hourly.csv') *)

Rows ==
    {[hour |-> h * SecondsPerHour, service |-> s, tps |-> v[1], pods |-> v[2]] :
        h \in SampleHours, s \in Range(Services), v \in Samples}

RowKey(r) == <<r.hour, Rank(r.service), r.tps, r.pods>>

RECURSIVE LexLeq(_, _)
LexLeq(a, b) ==
    \/ a = <<>>
    \/ a[1] < b[1]
    \/ a[1] = b[1] /\ LexLeq(Tail(a), Tail(b))

\* The rows of the file are enumerated in one order only: every output of the
\* script is computed from groupby results, which pandas sorts by key.
DataSets ==
    {d \in UNION {[1..n -> Rows] : n \in 1..MaxRows} :
        \A i \in 1..(Len(d) - 1) : LexLeq(RowKey(d[i]), RowKey(d[i + 1]))}

\* pd.Timestamp(date): midnight of calendar day d.
Timestamp(d) == d * SecondsPerDay

\* Timestamp.date()
DateOf(t) == t \div SecondsPerDay

min_date(d) == Min({d[i].hour : i \in 1..Len(d)})

max_date(d) == Max({d[i].hour : i \in 1..Len(d)})

\* sorted(df['service'].unique())
SortedServices(d) ==
    LET present == {d[i].service : i \in 1..Len(d)}
        Test(s) == s \in present
    IN  SelectSeq(Services, Test)

-----------------------------------------------------------------------------
(* Sidebar widgets *)

\* st.date_input in range mode, once both dates are picked: each date is
\* confined to [min_value, max_value]; the script does not compare the two.
DateChoices(d) == DateOf(min_date(d)) .. DateOf(max_date(d))

DateRanges(d) == DateChoices(d) \X DateChoices(d)

DefaultDateRange(d) == <<DateOf(min_date(d)), DateOf(max_date(d))>>

TimeWindows == {"Hour", "Day", "Week"}

AggMethods == {"Maximum", "Average", "Minimum"}

Metrics == {"TPS", "Pods"}

\* st.multiselect over the sorted services, kept in option order.
ServiceSelections(d) ==
    {q \in UNION {[1..n -> Range(SortedServices(d))] : n \in 0..Len(SortedServices(d))} :
        \A i \in 1..(Len(q) - 1) : Rank(q[i]) < Rank(q[i + 1])}

NoException == [type |-> "None", line |-> 0]

NotComputed == "not computed"

Init ==
    /\ df \in DataSets
    /\ date_range = DefaultDateRange(df)
    /\ time_window = "Hour"
    /\ agg_method = "Maximum"
    /\ show_metrics = Metrics
    /\ selected_services = SortedServices(df)
    /\ pc = "start"
    /\ raised = NoException
    /\ df_agg = <<>>
    /\ fig = <<>>
    /\ stats = <<>>
    /\ correlation = NotComputed
    /\ displayed = {}

Sidebar ==
    /\ pc = "start"
    /\ date_range' \in DateRanges(df)
    /\ time_window' \in TimeWindows
    /\ agg_method' \in AggMethods
    /\ show_metrics' \in SUBSET Metrics
    /\ \/ selected_services' \in ServiceSelections(df)   \* "Select Services"
       \/ selected_services' = SortedServices(df)        \* "All Services"
    /\ pc' = "filter"
    /\ UNCHANGED <<df, raised, df_agg, fig, stats, correlation, displayed>>

-----------------------------------------------------------------------------
(* Filter, bucket and aggregate *)

start_date(dr) == Timestamp(dr[1])

end_date(dr) == Timestamp(dr[2]) + SecondsPerDay - 1

\* Variant of Filtered: the service filter is skipped.
FilteredDatesOnly(d, dr, sel) ==
    LET Test(r) == r.hour >= start_date(dr) /\ r.hour <= end_date(dr)
    IN  SelectSeq(d, Test)

\* Variant of Filtered: the two date bounds are joined by "or".
FilteredEitherBound(d, dr, sel) ==
    LET Test(r) == /\ r.hour >= start_date(dr) \/ r.hour <= end_date(dr)
                   /\ r.service \in Range(sel)
    IN  SelectSeq(d, Test)

\* df[(hour >= start_date) & (hour <= end_date)], then service.isin(selected)
Filtered(d, dr, sel) ==
    LET Test(r) == /\ r.hour >= start_date(dr)
                   /\ r.hour <= end_date(dr)
                   /\ r.service \in Range(sel)
    IN  SelectSeq(d, Test)

\* Series.dt.floor accepts fixed frequencies only; 'W' is the weekly offset
\* anchored on Sunday, which is not fixed: the call raises ValueError.
FloorRaises(tw) == tw = "Week"

\* Variant of Group: Day floors to a multiple of seven days.
GroupWeekStart(t, tw) == IF tw = "Day" THEN t - (t % (7 * SecondsPerDay)) ELSE t

\* Variant of Group: every granularity floors to midnight.
GroupMidnight(t, tw) == t - (t % SecondsPerDay)

\* The 'group' column for Hour and Day.
Group(t, tw) == IF tw = "Day" THEN t - (t % SecondsPerDay) ELSE t

GroupKey(r, tw) == <<Group(r.hour, tw), r.service>>

KeyLess(a, b) == \/ a[1] < b[1]
                 \/ a[1] = b[1] /\ Rank(a[2]) < Rank(b[2])

\* groupby sorts the group keys.
RECURSIVE SortKeys(_)
SortKeys(K) ==
    IF K = {} THEN <<>>
    ELSE LET m == CHOOSE k \in K : \A o \in K \ {k} : KeyLess(k, o)
         IN  <<m>> \o SortKeys(K \ {m})

\* Variant of Members: rows are grouped by bucket start alone.
MembersAnyService(f, tw, k) == {i \in 1..Len(f) : Group(f[i].hour, tw) = k[1]}

\* Positions of the rows of f that fall in group k.
Members(f, tw, k) == {i \in 1..Len(f) : GroupKey(f[i], tw) = k}

RECURSIVE SumCol(_, _, _)
SumCol(f, I, col) ==
    IF I = {} THEN 0
    ELSE LET i == CHOOSE j \in I : TRUE IN f[i][col] + SumCol(f, I \ {i}, col)

\* agg_map and the reduction of one column of one group.
Reduce(method, f, I, col) ==
    CASE method = "Maximum" -> Rat(Max({f[i][col] : i \in I}), 1)
      [] method = "Minimum" -> Rat(Min({f[i][col] : i \in I}), 1)
      [] method = "Average" -> Rat(SumCol(f, I, col), Cardinality(I))

\* df_filtered.groupby(['group', 'service']).agg(...).reset_index()
GroupByAgg(f, tw, method) ==
    LET ks == SortKeys({GroupKey(f[i], tw) : i \in 1..Len(f)})
    IN  [j \in 1..Len(ks) |->
            [group |-> ks[j][1], service |-> ks[j][2],
             tps |-> Reduce(method, f, Members(f, tw, ks[j]), "tps"),
             pods |-> Reduce(method, f, Members(f, tw, ks[j]), "pods")]]

Aggregate ==
    /\ pc = "filter"
    /\ \/ /\ FloorRaises(time_window)
          /\ raised' = [type |-> "ValueError", line |-> 92]
          /\ pc' = "failed"
          /\ UNCHANGED df_agg
       \/ /\ ~FloorRaises(time_window)
          /\ df_agg' = GroupByAgg(Filtered(df, date_range, selected_services),
                                  time_window, agg_method)
          /\ pc' = "chart"
          /\ UNCHANGED raised
    /\ UNCHANGED <<df, date_range, time_window, agg_method, show_metrics,
                   selected_services, fig, stats, correlation, displayed>>

-----------------------------------------------------------------------------
(* Line chart and statistics table *)

\* df_agg[df_agg['service'] == service]
ServiceData(agg, s) == LET Test(r) == r.service = s IN SelectSeq(agg, Test)

\* The traces added to the figure, in the order of the loop: per selected
\* service its TPS line, then its pods line, the latter on the secondary axis
\* when both metrics are shown.
Traces(agg, sel, metrics) ==
    LET Test(m) == m \in metrics
        shown == SelectSeq(<<"TPS", "Pods">>, Test)
        n == Len(shown)
        use_secondary_y == n > 1
    IN  [k \in 1..(Len(sel) * n) |->
            LET service == sel[((k - 1) \div n) + 1]
                metric == shown[((k - 1) % n) + 1]
                sd == ServiceData(agg, service)
            IN  [name |-> <<service, metric>>,
                 x |-> [i \in 1..Len(sd) |-> sd[i].group],
                 y |-> [i \in 1..Len(sd) |->
                          IF metric = "TPS" THEN sd[i].tps ELSE sd[i].pods],
                 secondary_y |-> (metric = "Pods" /\ use_secondary_y)]]

\* Series.max()
SeriesMax(sd, col) ==
    LET i == CHOOSE j \in 1..Len(sd) : \A k \in 1..Len(sd) : RLeq(sd[k][col], sd[j][col])
    IN  sd[i][col]

\* Variant of IdxMax: the last occurrence of the maximum.
IdxMaxLast(sd, col) ==
    CHOOSE i \in 1..Len(sd) :
        /\ sd[i][col] = SeriesMax(sd, col)
        /\ \A j \in (i + 1)..Len(sd) : sd[j][col] # SeriesMax(sd, col)

\* Series.idxmax(): the label of the first occurrence of the maximum.
IdxMax(sd, col) ==
    CHOOSE i \in 1..Len(sd) :
        /\ sd[i][col] = SeriesMax(sd, col)
        /\ \A j \in 1..(i - 1) : sd[j][col] # SeriesMax(sd, col)

\* Variant of SeriesMean: the mean of the raw rows behind the buckets.
SeriesMeanOfRows(sd, col) ==
    LET f == Filtered(df, date_range, selected_services)
        I == {i \in 1..Len(f) : f[i].service = sd[1].service}
    IN  Rat(SumCol(f, I, col), Cardinality(I))

\* Series.mean()
SeriesMean(sd, col) ==
    LET total == RSum([i \in 1..Len(sd) |-> sd[i][col]], 1..Len(sd))
    IN  Rat(total[1], total[2] * Len(sd))

TpsStats(sd) ==
    [peak_tps |-> SeriesMax(sd, "tps"),
     peak_tps_time |-> sd[IdxMax(sd, "tps")].group,
     avg_tps |-> SeriesMean(sd, "tps")]

PodsStats(sd) ==
    [peak_pods |-> SeriesMax(sd, "pods"),
     peak_pods_time |-> sd[IdxMax(sd, "pods")].group,
     avg_pods |-> SeriesMean(sd, "pods")]

\* One row of the statistics table; the pre-formatted display strings of the
\* numbers are left out.
StatRow(agg, s, metrics) ==
    LET sd == ServiceData(agg, s)
    IN  [Service |-> s,
         TPS |-> IF "TPS" \in metrics THEN TpsStats(sd) ELSE "hidden",
         Pods |-> IF "Pods" \in metrics THEN PodsStats(sd) ELSE "hidden"]

\* idxmax of an empty series raises ValueError.
StatsRaise(agg, sel, metrics) ==
    /\ metrics # {}
    /\ \E i \in 1..Len(sel) : Len(ServiceData(agg, sel[i])) = 0

\* Line of the first idxmax call that is reached.
StatsRaiseLine(metrics) == IF "TPS" \in metrics THEN 175 ELSE 188

Summarize ==
    /\ pc = "chart"
    /\ fig' = Traces(df_agg, selected_services, show_metrics)
    /\ \/ /\ StatsRaise(df_agg, selected_services, show_metrics)
          /\ raised' = [type |-> "ValueError", line |-> StatsRaiseLine(show_metrics)]
          /\ pc' = "failed"
          /\ displayed' = displayed \cup {"chart"}
          /\ UNCHANGED stats
       \/ /\ ~StatsRaise(df_agg, selected_services, show_metrics)
          /\ stats' = [i \in 1..Len(selected_services) |->
                          StatRow(df_agg, selected_services[i], show_metrics)]
          /\ displayed' = displayed \cup {"chart"} \cup
                            (IF selected_services # <<>> THEN {"statistics"} ELSE {})
          /\ pc' = "correlate"
          /\ UNCHANGED raised
    /\ UNCHANGED <<df, date_range, time_window, agg_method, show_metrics,
                   selected_services, df_agg, correlation>>

-----------------------------------------------------------------------------
(* Correlation of TPS and pods *)

Sign(n) == IF n > 0 THEN 1 ELSE IF n < 0 THEN -1 ELSE 0

\* Series.corr (Pearson): undefined (NaN) below two points or when a series
\* is constant; otherwise given exactly by its sign and its square.
Pearson(sd) ==
    LET n == Len(sd)
        I == 1..n
        N == <<n, 1>>
        sx == RSum([i \in I |-> sd[i].tps], I)
        sy == RSum([i \in I |-> sd[i].pods], I)
        sxy == RSum([i \in I |-> RMul(sd[i].tps, sd[i].pods)], I)
        sxx == RSum([i \in I |-> RMul(sd[i].tps, sd[i].tps)], I)
        syy == RSum([i \in I |-> RMul(sd[i].pods, sd[i].pods)], I)
        cov == RSub(RMul(N, sxy), RMul(sx, sy))
        vx == RSub(RMul(N, sxx), RMul(sx, sx))
        vy == RSub(RMul(N, syy), RMul(sy, sy))
        vxy == RMul(vx, vy)
    IN  IF n < 2 \/ vx[1] = 0 \/ vy[1] = 0 THEN "nan"
        ELSE [sign |-> Sign(cov[1]),
              square |-> Rat(cov[1] * cov[1] * vxy[2], cov[2] * cov[2] * vxy[1])]

Correlate ==
    /\ pc = "correlate"
    /\ \/ /\ Metrics \subseteq show_metrics
          /\ Len(selected_services) = 1
          /\ correlation' = Pearson(ServiceData(df_agg, selected_services[1]))
          /\ displayed' = displayed \cup {"correlation"}
       \/ /\ Metrics \subseteq show_metrics
          /\ Len(selected_services) > 1
          /\ displayed' = displayed \cup {"info"}
          /\ UNCHANGED correlation
       \/ /\ ~(Metrics \subseteq show_metrics) \/ Len(selected_services) = 0
          /\ UNCHANGED <<correlation, displayed>>
    /\ pc' = "done"
    /\ UNCHANGED <<df, date_range, time_window, agg_method, show_metrics,
                   selected_services, raised, df_agg, fig, stats>>

\* Any interaction runs the script again from the top.
Rerun ==
    /\ pc \in {"done", "failed"}
    /\ pc' = "start"
    /\ date_range' = DefaultDateRange(df)
    /\ time_window' = "Hour"
    /\ agg_method' = "Maximum"
    /\ show_metrics' = Metrics
    /\ selected_services' = SortedServices(df)
    /\ raised' = NoException
    /\ df_agg' = <<>>
    /\ fig' = <<>>
    /\ stats' = <<>>
    /\ correlation' = NotComputed
    /\ displayed' = {}
    /\ UNCHANGED df

Next == Sidebar \/ Aggregate \/ Summarize \/ Correlate \/ Rerun

Spec == Init /\ [][Next]_vars

-----------------------------------------------------------------------------
(* Vocabulary of the properties, stated on the raw rows of df *)

\* The grouped frame exists: lines 80-107 ran without raising.
AggregateReturned ==
    \/ pc \in {"chart", "correlate", "done"}
    \/ pc = "failed" /\ raised.line > 107

\* The statistics rows exist: lines 167-226 ran without raising.
Summarized == pc \in {"correlate", "done"}

Finished == pc \in {"done", "failed"}

\* The correlation section (lines 228-252) has been executed, whatever its
\* outcome.
CorrelateRan == pc = "done" \/ (pc = "failed" /\ raised.line >= 228)

\* Lines 80-107 have been executed, whatever their outcome.
AggregateRan == pc \notin {"start", "filter"}

WindowStart == date_range[1] * SecondsPerDay

WindowEnd == date_range[2] * SecondsPerDay + SecondsPerDay - 1

\* Positions of the rows of df inside the date window and the service set.
Passing ==
    {i \in 1..Len(df) : /\ WindowStart <= df[i].hour
                        /\ df[i].hour <= WindowEnd
                        /\ \E k \in 1..Len(selected_services) :
                              selected_services[k] = df[i].service}

WindowLength(tw) ==
    CASE tw = "Hour" -> SecondsPerHour
      [] tw = "Day" -> SecondsPerDay
      [] tw = "Week" -> 7 * SecondsPerDay

\* Start of the window of length WindowLength(tw) that holds t.
WindowFloor(t, tw) == t - (t % WindowLength(tw))

\* v is the statistic named by method of column col over the rows I of df.
IsStatistic(method, I, col, v) ==
    CASE method = "Maximum" ->
            /\ v[2] = 1
            /\ \E i \in I : df[i][col] = v[1]
            /\ \A i \in I : df[i][col] <= v[1]
      [] method = "Minimum" ->
            /\ v[2] = 1
            /\ \E i \in I : df[i][col] = v[1]
            /\ \A i \in I : df[i][col] >= v[1]
      [] method = "Average" ->
            v[1] * Cardinality(I) = v[2] * SumCol(df, I, col)

\* Positions of the buckets of service s in df_agg.
BucketsOf(s) == {j \in 1..Len(df_agg) : df_agg[j].service = s}

StatOf(row, col) == IF col = "tps" THEN row.TPS ELSE row.Pods

Shown(col) == IF col = "tps" THEN "TPS" \in show_metrics ELSE "Pods" \in show_metrics

PeakOf(row, col) == IF col = "tps" THEN row.TPS.peak_tps ELSE row.Pods.peak_pods

PeakTimeOf(row, col) ==
    IF col = "tps" THEN row.TPS.peak_tps_time ELSE row.Pods.peak_pods_time

AvgOf(row, col) == IF col = "tps" THEN row.TPS.avg_tps ELSE row.Pods.avg_pods

Columns == {"tps", "pods"}

-----------------------------------------------------------------------------
(* C1 *)

\* C1: every bucket of the aggregate belongs to a selected service and has
\* its bucket start inside [startDate 00:00:00, endDate 23:59:59], for every
\* granularity that produces buckets.
C1_BucketsInsideSelection ==
    AggregateReturned =>
        \A j \in 1..Len(df_agg) :
            /\ \E k \in 1..Len(selected_services) :
                  selected_services[k] = df_agg[j].service
            /\ WindowStart <= df_agg[j].group
            /\ df_agg[j].group <= WindowEnd

\* A Day aggregate whose flooring moved a timestamp, with rows dropped by the
\* date window and rows dropped by the service filter.
C1_Witness ==
    /\ AggregateReturned
    /\ time_window = "Day"
    /\ \E i \in Passing : \A j \in 1..Len(df_agg) : df_agg[j].group # df[i].hour
    /\ \E i \in 1..Len(df) : df[i].hour > WindowEnd \/ df[i].hour < WindowStart
    /\ \E i \in 1..Len(df) : \A k \in 1..Len(selected_services) :
          selected_services[k] # df[i].service

-----------------------------------------------------------------------------
(* C2 *)

\* C2: the (bucket_start, service) keys of the aggregate are exactly the
\* floored keys of the rows that pass the filter, each once, for Hour, Day
\* and Week alike; with no passing row the output is empty.
C2_KeysMatchFilteredInput ==
    Finished =>
        /\ AggregateReturned
        /\ {<<df_agg[j].group, df_agg[j].service>> : j \in 1..Len(df_agg)}
             = {<<WindowFloor(df[i].hour, time_window), df[i].service>> : i \in Passing}
        /\ \A j, k \in 1..Len(df_agg) :
              (df_agg[j].group = df_agg[k].group /\ df_agg[j].service = df_agg[k].service)
                  => j = k

-----------------------------------------------------------------------------
(* C3 *)

\* C3: in every bucket, tps and pods are each the selected statistic over
\* exactly the passing rows of the bucket's service whose timestamp lies in
\* [bucket_start, bucket_start + window).
C3_BucketValues ==
    AggregateReturned =>
        \A j \in 1..Len(df_agg) :
            LET I == {i \in Passing :
                        /\ df[i].service = df_agg[j].service
                        /\ df_agg[j].group <= df[i].hour
                        /\ df[i].hour < df_agg[j].group + WindowLength(time_window)}
            IN  /\ I # {}
                /\ IsStatistic(agg_method, I, "tps", df_agg[j].tps)
                /\ IsStatistic(agg_method, I, "pods", df_agg[j].pods)

\* A Day bucket averaging two rows to a fraction while the other service has
\* a row in the same day.
C3_Witness ==
    /\ AggregateReturned
    /\ time_window = "Day"
    /\ agg_method = "Average"
    /\ \E j \in 1..Len(df_agg) :
          /\ df_agg[j].tps[2] = 2
          /\ \E k \in 1..Len(df_agg) :
                df_agg[k].group = df_agg[j].group /\ df_agg[k].service # df_agg[j].service

-----------------------------------------------------------------------------
(* C4 *)

\* C4: the reported peak is the maximum bucket value of the service, and the
\* reported peak time is the earliest bucket start among the buckets holding
\* that maximum.
C4_PeakEarliestAmongTies ==
    Summarized =>
        \A r \in 1..Len(stats) : \A col \in Columns :
            Shown(col) =>
                LET B == BucketsOf(stats[r].Service)
                    peak == PeakOf(stats[r], col)
                    tied == {j \in B : df_agg[j][col] = peak}
                IN  /\ tied # {}
                    /\ \A j \in B : RLeq(df_agg[j][col], peak)
                    /\ \A j \in tied : PeakTimeOf(stats[r], col) <= df_agg[j].group
                    /\ \E j \in tied : PeakTimeOf(stats[r], col) = df_agg[j].group

\* Three buckets of one service: a lower value first, then the maximum twice.
C4_Witness ==
    /\ Summarized
    /\ show_metrics = Metrics
    /\ \E r \in 1..Len(stats) :
          LET B == BucketsOf(stats[r].Service)
          IN  \E a, b, c \in B :
                /\ df_agg[a].group < df_agg[b].group
                /\ df_agg[b].group < df_agg[c].group
                /\ df_agg[a].tps # df_agg[b].tps
                /\ df_agg[b].tps = df_agg[c].tps
                /\ stats[r].TPS.peak_tps = df_agg[b].tps
                /\ stats[r].TPS.peak_tps_time = df_agg[b].group

-----------------------------------------------------------------------------
(* C5 *)

-----------------------------------------------------------------------------
(* C6 *)

\* C6: when a selected service has no bucket (the date range being in
\* order), summarising it fails with NoDataForService and yields no statistics
\* row.
C6_NoDataForService ==
    (/\ Finished
     /\ AggregateReturned
     /\ date_range[1] <= date_range[2]
     /\ show_metrics # {}
     /\ \E k \in 1..Len(selected_services) : BucketsOf(selected_services[k]) = {}) =>
        /\ raised.type = "NoDataForService"
        /\ stats = <<>>

-----------------------------------------------------------------------------
(* C7 *)

-----------------------------------------------------------------------------
(* C8 *)

\* C8: with one service selected, both metrics shown and fewer than two
\* buckets (the date range being in order), the correlation section fails
\* with InsufficientData and no coefficient is produced or displayed.
C8_InsufficientData ==
    (/\ CorrelateRan
     /\ date_range[1] <= date_range[2]
     /\ Len(selected_services) = 1
     /\ show_metrics = Metrics
     /\ Cardinality(BucketsOf(selected_services[1])) < 2) =>
        /\ raised.type = "InsufficientData"
        /\ correlation = NotComputed
        /\ "correlation" \notin displayed

-----------------------------------------------------------------------------
(* C9 *)

UniqueKeys ==
    \A i, j \in 1..Len(df) :
        (df[i].hour = df[j].hour /\ df[i].service = df[j].service) => i = j

\* C9: under Hour, when no (timestamp, service) pair repeats, the aggregate
\* holds one bucket per passing row, starting at the row's timestamp and
\* carrying the row's raw tps and pods, whichever statistic is selected.
C9_HourIsIdentity ==
    (AggregateReturned /\ time_window = "Hour" /\ UniqueKeys) =>
        /\ Len(df_agg) = Cardinality(Passing)
        /\ \A i \in Passing : \E j \in 1..Len(df_agg) :
              df_agg[j] = [group |-> df[i].hour, service |-> df[i].service,
                           tps |-> <<df[i].tps, 1>>, pods |-> <<df[i].pods, 1>>]
        /\ \A m \in AggMethods :
              df_agg = GroupByAgg(Filtered(df, date_range, selected_services), "Hour", m)

\* An Hour aggregate by mean of three distinct samples, one filtered out.
C9_Witness ==
    /\ AggregateReturned
    /\ time_window = "Hour"
    /\ agg_method = "Average"
    /\ UniqueKeys
    /\ Len(df) = 3
    /\ Len(df_agg) = 2

-----------------------------------------------------------------------------
(* C10 *)

\* C10: the reported average is the sum of the service's bucket values
\* divided by the number of its buckets.
C10_AverageOverBuckets ==
    Summarized =>
        \A r \in 1..Len(stats) : \A col \in Columns :
            Shown(col) =>
                LET B == BucketsOf(stats[r].Service)
                    total == RSum([j \in 1..Len(df_agg) |-> df_agg[j][col]], B)
                    avg == AvgOf(stats[r], col)
                IN  /\ B # {}
                    /\ avg[1] * total[2] * Cardinality(B) = total[1] * avg[2]

\* Day buckets by mean holding unequal numbers of rows: the reported average
\* differs from the mean of the service's passing rows.
C10_Witness ==
    /\ Summarized
    /\ time_window = "Day"
    /\ agg_method = "Average"
    /\ "TPS" \in show_metrics
    /\ \E r \in 1..Len(stats) :
          LET I == {i \in Passing : df[i].service = stats[r].Service}
              avg == stats[r].TPS.avg_tps
          IN  /\ Cardinality(BucketsOf(stats[r].Service)) = 2
              /\ Cardinality(I) = 3
              /\ avg[1] * Cardinality(I) # avg[2] * SumCol(df, I, "tps")

====
